---- MODULE Spec2Model ----
(***************************************************************************)
(* llm_code: the command-line entry point `main` of llm_code/llm_code.py.  *)
(* One invocation of main is a run of the statements of main in program    *)
(* order; the record store (db.sqlite under config_dir) outlives the       *)
(* invocation and is shared by the following ones.                         *)
(*                                                                         *)
(* Text is a sequence of one-character strings, so that str.join is a      *)
(* real concatenation.  A reply is a sequence of lines.                    *)
(* The --line-numbers flag only changes how the code is drawn and is left  *)
(* out; temperature is kept in tenths (0.8 is 8).                          *)
(***************************************************************************)
EXTENDS Integers, Sequences, FiniteSets, TLC

VARIABLES
    invocation,   \* number of invocations of main started so far
    pc,           \* position of the running invocation in main
    args,         \* click parameters of main: version, inputs, instructions
    fs,           \* template sources found under each root's "prompts"
    dbExists,     \* config_dir/db.sqlite exists
    records,      \* rows of the record store, in insertion order
    startLen,     \* number of rows when the invocation started
    settings,     \* Settings() of the invocation
    instructions, \* local `instructions` after " ".join
    loads,        \* roots passed to load_templates, in call order
    library,      \* local `library`
    input,        \* local `input`
    message,      \* local `message`
    messages,     \* local `messages`
    apiCalls,     \* calls of openai.ChatCompletion.create in the invocation
    response,     \* local `response`
    console,      \* what the invocation printed, in order
    raised,       \* exception that ended the invocation ("" if none)
    exitStatus    \* process exit status (-1 while running)

vars == <<invocation, pc, args, fs, dbExists, records, startLen, settings,
          instructions, loads, library, input, message, messages, apiCalls,
          response, console, raised, exitStatus>>

\* ------------------------------------------------------------------ bounds
MaxInvocations == 2

\* -------------------------------------------------------------------- text
RECURSIVE Join(_, _)
\* sep.join(parts)
Join(parts, sep) ==
    IF Len(parts) = 0 THEN <<>>
    ELSE IF Len(parts) = 1 THEN parts[1]
    ELSE parts[1] \o sep \o Join(Tail(parts), sep)

Space == <<" ">>
BlankLine == <<"\n", "\n">>

\* ----------------------------------------------------------- Settings
\* class Settings: defaults, overridable from the environment or env file
SettingsValues ==
    { [openai_api_key |-> k, model |-> "gpt-3.5-turbo", temperature |-> 8, max_tokens |-> 1000] :
        k \in {"", "sk-key"} }

NoSettings == [openai_api_key |-> "", model |-> "", temperature |-> 0, max_tokens |-> 0]

\* ------------------------------------------------- templates (templates.py)
Lit(c) == [kind |-> "lit", v |-> c]
Var(n) == [kind |-> "var", v |-> n]

NoTemplates == [n \in {} |-> 0]

\* Optional[TemplateLibrary]: None is [present |-> FALSE]
NoLibrary == [present |-> FALSE, templates |-> NoTemplates]
Library(ts) == [present |-> TRUE, templates |-> ts]

SystemTemplate(tag) == [role |-> "system", body |-> <<Lit(tag), Lit("S")>>]
SimpleTemplate(tag) == [role |-> "user", body |-> <<Lit(tag), Var("instructions")>>]
InputTemplate(tag) ==
    [role |-> "user", body |-> <<Lit(tag), Var("code"), Lit(":"), Var("instructions")>>]
\* a user-edited coding/simple that also asks for {code}
CodeSimpleTemplate(tag) ==
    [role |-> "user", body |-> <<Lit(tag), Var("code"), Var("instructions")>>]

FullTemplates(tag) ==
    [n \in {"coding/system", "coding/simple", "coding/input"} |->
        IF n = "coding/system" THEN SystemTemplate(tag)
        ELSE IF n = "coding/simple" THEN SimpleTemplate(tag)
        ELSE InputTemplate(tag)]

Restrict(f, S) == [n \in S |-> f[n]]

\* what a "prompts" directory under a root can hold
UserSources ==
    { NoLibrary,
      Library(NoTemplates),
      Library(FullTemplates("U")),
      Library(Restrict(FullTemplates("U"), {"coding/system", "coding/simple"})),
      Library(Restrict(FullTemplates("U"), {"coding/simple", "coding/input"})),
      Library([FullTemplates("U") EXCEPT !["coding/simple"] = CodeSimpleTemplate("U")]) }

PackageSources ==
    { NoLibrary, Library(NoTemplates), Library(FullTemplates("P")) }

\* bool(library): None and a library without templates are falsy
Truthy(lib) == lib.present /\ DOMAIN lib.templates # {}

\* placeholders of a body that the substitutions do not supply
MissingVars(body, subs) ==
    { body[i].v : i \in { j \in 1..Len(body) : body[j].kind = "var" } } \ DOMAIN subs

RECURSIVE RenderBody(_, _)
\* pure text substitution of {name} placeholders
RenderBody(body, subs) ==
    IF Len(body) = 0 THEN <<>>
    ELSE (IF Head(body).kind = "lit" THEN <<Head(body).v>> ELSE subs[Head(body).v])
         \o RenderBody(Tail(body), subs)

NoMessage == [role |-> "", content |-> <<>>]

\* Template.message(**kwargs)
TemplateMessage(t, subs) == [role |-> t.role, content |-> RenderBody(t.body, subs)]

NoSubs == [n \in {} |-> <<>>]

\* ---------------------------------------------------- remote API replies
NoResponse == [content |-> <<>>, prompt_tokens |-> 0, completion_tokens |-> 0]

Responses ==
    { [content |-> <<"Here:", "~~~python", "print('hi')", "~~~">>,
       prompt_tokens |-> 3, completion_tokens |-> 5],
      [content |-> <<"Sorry, I cannot help.">>,
       prompt_tokens |-> 2, completion_tokens |-> 1],
      [content |-> <<"~~~python", "print('hi')">>,
       prompt_tokens |-> 4, completion_tokens |-> 2] }

\* the fence marker of three backquotes is written ~~~ (a TLA+ string cannot hold a backquote)
IsOpenFence(line) == line \in {"~~~", "~~~python"}
FenceLang(line) == IF line = "~~~python" THEN "python" ELSE ""

NoCode == [found |-> FALSE, lang |-> "", code |-> <<>>]

\* Message.code(): the first fenced block of the content, if it is closed
MessageCode(content) ==
    LET opens == { i \in 1..Len(content) : IsOpenFence(content[i]) } IN
    IF opens = {} THEN NoCode
    ELSE LET o == CHOOSE i \in opens : \A j \in opens : i <= j
             closes == { i \in (o + 1)..Len(content) : content[i] = "~~~" } IN
         IF closes = {} THEN NoCode
         ELSE LET c == CHOOSE i \in closes : \A j \in closes : i <= j IN
              [found |-> TRUE, lang |-> FenceLang(content[o]),
               code |-> SubSeq(content, o + 1, c - 1)]

\* ------------------------------------------------------------ click inputs
Word == <<"w">>
ArgInstructions == { <<>>, << <<>> >>, <<Word, Word>> }

NoOption == [given |-> FALSE, glob |-> ""]
ArgInputs == { NoOption, [given |-> TRUE, glob |-> ""], [given |-> TRUE, glob |-> "*.py"] }

\* contents of the files a glob can match under the working directory
GlobResults == { <<>>, << <<>> >>, << <<"c">> >>, << <<>>, <<>> >> }

NoArgs == [version |-> FALSE, inputs |-> NoOption, instructions |-> <<>>]
NoFs == [config_dir |-> NoLibrary, package |-> NoLibrary]

\* ------------------------------------------------------------------- Init
Init ==
    /\ invocation = 0
    /\ pc = "idle"
    /\ args = NoArgs
    /\ fs = NoFs
    /\ dbExists = FALSE
    /\ records = <<>>
    /\ startLen = 0
    /\ settings = NoSettings
    /\ instructions = <<>>
    /\ loads = <<>>
    /\ library = NoLibrary
    /\ input = <<>>
    /\ message = NoMessage
    /\ messages = <<>>
    /\ apiCalls = 0
    /\ response = NoResponse
    /\ console = <<>>
    /\ raised = ""
    /\ exitStatus = -1

locals == <<settings, instructions, loads, library, input, message, messages,
            apiCalls, response>>
world == <<invocation, args, fs, startLen>>
store == <<dbExists, records>>

\* the process ends with an uncaught exception: click reports a UsageError
\* with status 2, the interpreter reports anything else with status 1
Raise(exc, status) ==
    /\ raised' = exc
    /\ exitStatus' = status
    /\ pc' = "exited"

\* a new process starts main with its command line, in some file system
Invoke ==
    /\ pc \in {"idle", "exited"}
    /\ invocation < MaxInvocations
    /\ invocation' = invocation + 1
    /\ \E v \in BOOLEAN, i \in ArgInputs, ins \in ArgInstructions :
          args' = [version |-> v, inputs |-> i, instructions |-> ins]
    /\ \E u \in UserSources, p \in PackageSources :
          fs' = [config_dir |-> u, package |-> p]
    /\ startLen' = Len(records)
    /\ settings' = NoSettings
    /\ instructions' = <<>>
    /\ loads' = <<>>
    /\ library' = NoLibrary
    /\ input' = <<>>
    /\ message' = NoMessage
    /\ messages' = <<>>
    /\ apiCalls' = 0
    /\ response' = NoResponse
    /\ console' = <<>>
    /\ raised' = ""
    /\ exitStatus' = -1
    /\ pc' = "version"
    /\ UNCHANGED store

\* if version: console.print(...); sys.exit(0)
ShowVersion ==
    /\ pc = "version"
    /\ IF args.version
       THEN /\ console' = Append(console, [kind |-> "version", text |-> <<>>])
            /\ exitStatus' = 0
            /\ pc' = "exited"
       ELSE /\ pc' = "settings"
            /\ UNCHANGED <<console, exitStatus>>
    /\ UNCHANGED <<world, store, locals, raised>>

\* db.Database.get(db_path): opens the store, creating it when absent
DatabaseGet(rows) == rows

\* faulty variant of initdb: the store file is created anew on every start
initdb_Recreate ==
    /\ dbExists' = TRUE
    /\ records' = <<>>

\* initdb(config_dir)
initdb ==
    /\ dbExists' = TRUE
    /\ records' = DatabaseGet(records)

\* settings = Settings(); initdb(settings.config_dir)
LoadSettings ==
    /\ pc = "settings"
    /\ settings' \in SettingsValues
    /\ initdb
    /\ pc' = "check_key"
    /\ UNCHANGED <<world, instructions, loads, library, input, message, messages,
                   apiCalls, response, console, raised, exitStatus>>

\* faulty variant of CheckKey: the credential is not checked here
CheckKey_Unchecked ==
    /\ pc = "check_key"
    /\ pc' = "check_instructions"
    /\ UNCHANGED <<world, store, locals, console, raised, exitStatus>>

\* if not settings.openai_api_key: raise click.UsageError(...)
CheckKey ==
    /\ pc = "check_key"
    /\ IF settings.openai_api_key = ""
       THEN Raise("UsageError: OPENAI_API_KEY must be set.", 2)
       ELSE /\ pc' = "check_instructions"
            /\ UNCHANGED <<raised, exitStatus>>
    /\ UNCHANGED <<world, store, locals, console>>

\* instructions = " ".join(instructions); if not instructions: raise ...
CheckInstructions ==
    /\ pc = "check_instructions"
    /\ instructions' = Join(args.instructions, Space)
    /\ IF instructions' = <<>>
       THEN Raise("UsageError: Please provide some instructions.", 2)
       ELSE /\ pc' = "load_library"
            /\ UNCHANGED <<raised, exitStatus>>
    /\ UNCHANGED <<world, store, settings, loads, library, input, message, messages,
                   apiCalls, response, console>>

\* load_templates(path): the library under path/"prompts", or None
load_templates(root) == fs[root]

\* faulty variant of LoadLibrary: the package directory is tried first
LoadLibrary_PackageFirst ==
    /\ pc = "load_library"
    /\ IF Truthy(load_templates("package"))
       THEN /\ loads' = loads \o <<"package">>
            /\ library' = load_templates("package")
       ELSE /\ loads' = loads \o <<"package", "config_dir">>
            /\ library' = load_templates("config_dir")
    /\ pc' = "check_library"
    /\ UNCHANGED <<world, store, settings, instructions, input, message, messages,
                   apiCalls, response, console, raised, exitStatus>>

\* library = load_templates(config_dir) or load_templates(package dir)
LoadLibrary ==
    /\ pc = "load_library"
    /\ IF Truthy(load_templates("config_dir"))
       THEN /\ loads' = loads \o <<"config_dir">>
            /\ library' = load_templates("config_dir")
       ELSE /\ loads' = loads \o <<"config_dir", "package">>
            /\ library' = load_templates("package")
    /\ pc' = "check_library"
    /\ UNCHANGED <<world, store, settings, instructions, input, message, messages,
                   apiCalls, response, console, raised, exitStatus>>

\* faulty variant of CheckLibrary: a missing library is not reported
CheckLibrary_Unchecked ==
    /\ pc = "check_library"
    /\ pc' = "read_inputs"
    /\ UNCHANGED <<world, store, locals, console, raised, exitStatus>>

\* if not library: raise click.UsageError("No templates found.")
CheckLibrary ==
    /\ pc = "check_library"
    /\ IF ~Truthy(library)
       THEN Raise("UsageError: No templates found.", 2)
       ELSE /\ pc' = "read_inputs"
            /\ UNCHANGED <<raised, exitStatus>>
    /\ UNCHANGED <<world, store, locals, console>>

\* inputs = Path.cwd().glob(inputs) if inputs else []
\* input = "\n\n".join([i.read_text() for i in inputs])
ReadInputs ==
    /\ pc = "read_inputs"
    /\ \E files \in (IF args.inputs.given /\ args.inputs.glob # "" THEN GlobResults ELSE {<<>>}) :
          input' = Join(files, BlankLine)
    /\ pc' = "user_message"
    /\ UNCHANGED <<world, store, settings, instructions, loads, library, message, messages,
                   apiCalls, response, console, raised, exitStatus>>

\* library[name].message(**subs): the error it ends in, "" when it gives the Message
LookupError(name, subs) ==
    IF name \notin DOMAIN library.templates THEN "TemplateNotFound: " \o name
    ELSE IF MissingVars(library.templates[name].body, subs) # {} THEN "MissingVariable"
    ELSE ""

\* name and keyword arguments of the user template
UserTemplateName == IF input # <<>> THEN "coding/input" ELSE "coding/simple"
UserTemplateSubs ==
    IF input # <<>>
    THEN [n \in {"code", "instructions"} |-> IF n = "code" THEN input ELSE instructions]
    ELSE [n \in {"instructions"} |-> instructions]

\* faulty variant of BuildUserMessage: the template follows the --inputs option
BuildUserMessage_ByOption ==
    /\ pc = "user_message"
    /\ LET name == IF args.inputs.given THEN "coding/input" ELSE "coding/simple"
           subs == IF args.inputs.given
                   THEN [n \in {"code", "instructions"} |-> IF n = "code" THEN input ELSE instructions]
                   ELSE [n \in {"instructions"} |-> instructions]
       IN IF LookupError(name, subs) # ""
          THEN /\ Raise(LookupError(name, subs), 1)
               /\ UNCHANGED message
          ELSE /\ message' = TemplateMessage(library.templates[name], subs)
               /\ pc' = "messages"
               /\ UNCHANGED <<raised, exitStatus>>
    /\ UNCHANGED <<world, store, settings, instructions, loads, library, input, messages,
                   apiCalls, response, console>>

\* if input: message = library["coding/input"].message(code=, instructions=)
\* else:     message = library["coding/simple"].message(instructions=)
BuildUserMessage ==
    /\ pc = "user_message"
    /\ IF LookupError(UserTemplateName, UserTemplateSubs) # ""
       THEN /\ Raise(LookupError(UserTemplateName, UserTemplateSubs), 1)
            /\ UNCHANGED message
       ELSE /\ message' = TemplateMessage(library.templates[UserTemplateName], UserTemplateSubs)
            /\ pc' = "messages"
            /\ UNCHANGED <<raised, exitStatus>>
    /\ UNCHANGED <<world, store, settings, instructions, loads, library, input, messages,
                   apiCalls, response, console>>

\* faulty variant of BuildMessages: a failing system template is replaced by an empty message
BuildMessages_DefaultSystem ==
    /\ pc = "messages"
    /\ messages' = <<IF LookupError("coding/system", NoSubs) # ""
                     THEN [role |-> "system", content |-> <<>>]
                     ELSE TemplateMessage(library.templates["coding/system"], NoSubs),
                     message>>
    /\ pc' = "ask"
    /\ UNCHANGED <<world, store, settings, instructions, loads, library, input, message,
                   apiCalls, response, console, raised, exitStatus>>

\* messages = [library["coding/system"].message(), message]
BuildMessages ==
    /\ pc = "messages"
    /\ IF LookupError("coding/system", NoSubs) # ""
       THEN /\ Raise(LookupError("coding/system", NoSubs), 1)
            /\ UNCHANGED messages
       ELSE /\ messages' = <<TemplateMessage(library.templates["coding/system"], NoSubs), message>>
            /\ pc' = "ask"
            /\ UNCHANGED <<raised, exitStatus>>
    /\ UNCHANGED <<world, store, settings, instructions, loads, library, input, message,
                   apiCalls, response, console>>

\* faulty variant of AskOpenAI: a failed call is made again
AskOpenAI_Retry ==
    /\ pc = "ask"
    /\ apiCalls' = apiCalls + 1
    /\ \/ /\ response' \in Responses
          /\ pc' = "write"
       \/ /\ pc' = "ask"
          /\ UNCHANGED response
    /\ UNCHANGED <<world, store, settings, instructions, loads, library, input, message,
                   messages, console, raised, exitStatus>>

\* response = openai.ChatCompletion.create(...): a reply, or an API error
AskOpenAI ==
    /\ pc = "ask"
    /\ apiCalls' = apiCalls + 1
    /\ \/ /\ response' \in Responses
          /\ pc' = "write"
          /\ UNCHANGED <<raised, exitStatus>>
       \/ /\ Raise("OpenAIError", 1)
          /\ UNCHANGED response
    /\ UNCHANGED <<world, store, settings, instructions, loads, library, input, message,
                   messages, console>>

\* Message.from_message(response.choices[0]["message"])
from_message(resp) == [role |-> "assistant", content |-> resp.content]

\* faulty variant of WrittenRecord: the two token counts change places
WrittenRecord_TokensSwapped ==
    [model |-> settings.model,
     temperature |-> settings.temperature,
     max_tokens |-> settings.max_tokens,
     system_message |-> messages[1].content,
     user_message |-> messages[2].content,
     assistant_message |-> response.content,
     input_tokens |-> response.completion_tokens,
     output_tokens |-> response.prompt_tokens]

\* the row db.write is asked to insert
WrittenRecord ==
    [model |-> settings.model,
     temperature |-> settings.temperature,
     max_tokens |-> settings.max_tokens,
     system_message |-> messages[1].content,
     user_message |-> messages[2].content,
     assistant_message |-> from_message(response).content,
     input_tokens |-> response.prompt_tokens,
     output_tokens |-> response.completion_tokens]

\* message = Message.from_message(...); db.write(...): the row is inserted,
\* or the write fails and the error reaches the caller
WriteRecord ==
    /\ pc = "write"
    /\ message' = from_message(response)
    /\ \/ /\ records' = Append(records, WrittenRecord)
          /\ pc' = "show"
          /\ UNCHANGED <<raised, exitStatus>>
       \/ /\ Raise("DatabaseError", 1)
          /\ UNCHANGED records
    /\ UNCHANGED <<world, dbExists, settings, instructions, loads, library, input,
                   messages, apiCalls, response, console>>

\* faulty variant of ShowCode: the fallback message does not end the process with status 1
ShowCode_FallThrough ==
    /\ pc = "show"
    /\ LET code == MessageCode(message.content) IN
       IF code.found
       THEN console' = Append(console, [kind |-> "syntax", lang |-> code.lang, text |-> code.code])
       ELSE console' = Append(console, [kind |-> "no_code", lang |-> "", text |-> message.content])
    /\ exitStatus' = 0
    /\ pc' = "exited"
    /\ UNCHANGED <<world, store, locals, raised>>

\* code = message.code(); print the code, or the fallback and sys.exit(1)
ShowCode ==
    /\ pc = "show"
    /\ LET code == MessageCode(message.content) IN
       IF code.found
       THEN /\ console' = Append(console, [kind |-> "syntax", lang |-> code.lang, text |-> code.code])
            /\ exitStatus' = 0
       ELSE /\ console' = Append(console, [kind |-> "no_code", lang |-> "", text |-> message.content])
            /\ exitStatus' = 1
    /\ pc' = "exited"
    /\ UNCHANGED <<world, store, locals, raised>>

Next ==
    \/ Invoke
    \/ ShowVersion
    \/ LoadSettings
    \/ CheckKey
    \/ CheckInstructions
    \/ LoadLibrary
    \/ CheckLibrary
    \/ ReadInputs
    \/ BuildUserMessage
    \/ BuildMessages
    \/ AskOpenAI
    \/ WriteRecord
    \/ ShowCode

Spec == Init /\ [][Next]_vars

\* ================================================================ properties
CredentialError == "UsageError: OPENAI_API_KEY must be set."
InstructionsError == "UsageError: Please provide some instructions."
TemplatesError == "UsageError: No templates found."
ConfigErrors == {CredentialError, InstructionsError, TemplatesError}
TemplateErrors ==
    {"TemplateNotFound: coding/input", "TemplateNotFound: coding/simple",
     "TemplateNotFound: coding/system", "MissingVariable"}
SettingsRead == ~args.version /\ pc \notin {"idle", "version", "settings"}
Printed(kind) == \E i \in DOMAIN console : console[i].kind = kind
BothSubs == [n \in {"code", "instructions"} |-> IF n = "code" THEN input ELSE instructions]
InstructionsOnly == [n \in {"instructions"} |-> instructions]
\* what library[name].message(**subs) gives, NoMessage when it raises
Rendered(name, subs) ==
    IF name \in DOMAIN library.templates
       /\ MissingVars(library.templates[name].body, subs) = {}
    THEN TemplateMessage(library.templates[name], subs)
    ELSE NoMessage

\* C1: once Settings() has given an empty openai_api_key (and --version was not
\* asked), the invocation is at the credential check or has ended there with the
\* usage error "OPENAI_API_KEY must be set." and status 2; load_templates was never
\* called and the API was never called in that invocation.
CredentialAbsentFailsFirst ==
    (SettingsRead /\ settings.openai_api_key = "") =>
        /\ loads = <<>>
        /\ apiCalls = 0
        /\ pc \in {"check_key", "exited"}
        /\ pc = "exited" => (raised = CredentialError /\ exitStatus = 2)

\* C1 witness: an invocation with instructions and a usable package library ended
\* on the missing credential
CredentialAbsentReached ==
    /\ pc = "exited"
    /\ ~args.version
    /\ settings.openai_api_key = ""
    /\ raised = CredentialError
    /\ args.instructions = <<Word, Word>>
    /\ Truthy(fs.package)

\* C2: a finished invocation (no --version) whose credential is empty, whose joined
\* instructions are empty, or none of whose roots yields a template, ended with one
\* of the three usage errors and status 2; and whenever one of the three errors was
\* raised the exit status is non-zero, the API was not called and the store has the
\* rows it had when the invocation started.
ConfigErrorsAreFatal ==
    /\ (/\ pc = "exited"
        /\ ~args.version
        /\ \/ settings.openai_api_key = ""
           \/ Join(args.instructions, Space) = <<>>
           \/ (~Truthy(fs.config_dir) /\ ~Truthy(fs.package)))
       => raised \in ConfigErrors
    /\ raised \in ConfigErrors =>
        /\ pc = "exited"
        /\ exitStatus = 2
        /\ apiCalls = 0
        /\ Len(records) = startLen

\* C2 witness: with a row already stored, an invocation ended on "No templates found."
NoTemplatesErrorReached ==
    /\ pc = "exited"
    /\ raised = TemplatesError
    /\ settings.openai_api_key # ""
    /\ startLen = 1

\* C3 (as claimed): when db.write fails after the reply arrived, the invocation has
\* shown the answer (the code or the no-code message) and a notice that logging failed.
StorageFailureStillShowsAnswer ==
    (pc = "exited" /\ raised = "DatabaseError") =>
        /\ Printed("syntax") \/ Printed("no_code")
        /\ Printed("logging_failed")

\* C4: the API is called at most once per invocation; an invocation whose call
\* raised has ended with no row added and exactly one call made; and db.write is
\* reached, and a row added, only with a response in hand.
ApiFailureNotPersistedNotRetried ==
    /\ apiCalls <= 1
    /\ raised = "OpenAIError" =>
        /\ pc = "exited"
        /\ exitStatus # 0
        /\ apiCalls = 1
        /\ response = NoResponse
        /\ Len(records) = startLen
    /\ (pc = "write" \/ Len(records) # startLen) => (response \in Responses /\ apiCalls = 1)

\* C4 witness: with a row already stored, an invocation ended on the API error
ApiFailureReached ==
    /\ pc = "exited"
    /\ raised = "OpenAIError"
    /\ startLen = 1

\* C5: an invocation that got through db.write ends by printing exactly one thing:
\* the code block with status 0 when the reply holds one, else the no-code message
\* with the whole reply and status 1.
NoCodeIsDistinctExit ==
    (pc = "exited" /\ raised = "" /\ ~args.version) =>
        /\ Len(console) = 1
        /\ IF MessageCode(response.content).found
           THEN /\ console[1].kind = "syntax"
                /\ console[1].text = MessageCode(response.content).code
                /\ exitStatus = 0
           ELSE /\ console[1].kind = "no_code"
                /\ console[1].text = response.content
                /\ exitStatus = 1

\* C5 witness: a reply without a fenced block ended with the fallback and status 1
NoCodeReached ==
    /\ pc = "exited"
    /\ raised = ""
    /\ response.content = <<"Sorry, I cannot help.">>
    /\ Printed("no_code")
    /\ exitStatus = 1

\* the two messages are the rendered system template then the rendered user template
TwoMessages(userName, userSubs) ==
    /\ Len(messages) = 2
    /\ messages[1] = Rendered("coding/system", NoSubs)
    /\ messages[1].role = "system"
    /\ messages[2] = Rendered(userName, userSubs)
    /\ messages[2] # NoMessage

\* C6 (as claimed): when the API is about to be called, the user message is
\* coding/input rendered with code and instructions if --inputs was given, and
\* coding/simple rendered with instructions otherwise.
UserTemplateByOption ==
    pc = "ask" =>
        IF args.inputs.given
        THEN TwoMessages("coding/input", BothSubs)
        ELSE TwoMessages("coding/simple", InstructionsOnly)

\* C6 (amended): when the API is about to be called, the messages are exactly
\* [rendered coding/system, user message], the user message being coding/input
\* rendered with code and instructions if the joined text of the matched files is
\* not empty, and coding/simple rendered with instructions if it is empty.
UserTemplateByContent ==
    pc = "ask" =>
        IF input # <<>>
        THEN TwoMessages("coding/input", BothSubs)
        ELSE TwoMessages("coding/simple", InstructionsOnly)

\* C6 witness: --inputs matched one file "c"; the package's coding/input was
\* rendered with the file text and the instructions "w w"
InputTemplateReached ==
    /\ pc = "ask"
    /\ args.inputs.given
    /\ input = <<"c">>
    /\ messages[2].content = <<"P", "c", ":", "w", " ", "w">>

\* C7: load_templates is called on config_dir first; if config_dir yields templates
\* the library is exactly that one and the package directory is not consulted; if
\* not, the package directory is consulted and, when it yields templates, the
\* library is exactly the package's; if neither yields any, the invocation ends
\* with "No templates found.".
FirstYieldingRootUsed ==
    loads # <<>> =>
        /\ loads[1] = "config_dir"
        /\ Truthy(fs.config_dir) => (library = fs.config_dir /\ loads = <<"config_dir">>)
        /\ ~Truthy(fs.config_dir) =>
            /\ loads = <<"config_dir", "package">>
            /\ Truthy(fs.package) => library = fs.package
            /\ ~Truthy(fs.package) =>
                \/ pc = "check_library"
                \/ (pc = "exited" /\ raised = TemplatesError)

\* C7 witness: config_dir holds a library without coding/input, the package holds
\* one with it, and the invocation ended on the missing coding/input
NoMergeAcrossRootsReached ==
    /\ pc = "exited"
    /\ raised = "TemplateNotFound: coding/input"
    /\ Truthy(fs.config_dir)
    /\ "coding/input" \in DOMAIN fs.package.templates

\* the row that matches what was exchanged
ExchangedRecord ==
    [model |-> settings.model,
     temperature |-> settings.temperature,
     max_tokens |-> settings.max_tokens,
     system_message |-> Rendered("coding/system", NoSubs).content,
     user_message |-> Rendered(UserTemplateName, UserTemplateSubs).content,
     assistant_message |-> response.content,
     input_tokens |-> response.prompt_tokens,
     output_tokens |-> response.completion_tokens]

OneRecordAppended ==
    /\ Len(records) = startLen + 1
    /\ records[Len(records)] = ExchangedRecord

\* C8 (as claimed): an ended invocation whose API call completed has added exactly
\* one row, whose fields are what was exchanged.
EveryCompletedCallRecorded ==
    (pc = "exited" /\ response \in Responses) => OneRecordAppended

\* C8 (amended): after the API call completed and db.write was attempted, exactly
\* one row matching the exchange was added if the write succeeded, with or without
\* a code block in the reply, and no row was added if the write failed.
CompletedCallRecordedUnlessWriteFails ==
    (pc \in {"show", "exited"} /\ response \in Responses) =>
        IF raised = "DatabaseError"
        THEN Len(records) = startLen
        ELSE OneRecordAppended

\* C8 witness: a reply without code was stored: prompt count 2, completion count 1
RecordWithoutCodeReached ==
    /\ pc = "exited"
    /\ Printed("no_code")
    /\ Len(records) = startLen + 1
    /\ records[Len(records)].input_tokens = 2
    /\ records[Len(records)].output_tokens = 1
    /\ records[Len(records)].assistant_message = <<"Sorry, I cannot help.">>

\* C9: an invocation that raised a template error has ended with a non-zero
\* status, no API call and no row added; and the API is called only when both
\* templates were found and rendered.
TemplateErrorIsFatal ==
    /\ raised \in TemplateErrors =>
        /\ pc = "exited"
        /\ exitStatus # 0
        /\ apiCalls = 0
        /\ Len(records) = startLen
    /\ (pc = "ask" \/ apiCalls > 0) =>
        /\ LookupError(UserTemplateName, UserTemplateSubs) = ""
        /\ LookupError("coding/system", NoSubs) = ""

\* C9 witness: with a row already stored, the user message was built and the
\* invocation ended on the missing coding/system
TemplateErrorReached ==
    /\ pc = "exited"
    /\ raised = "TemplateNotFound: coding/system"
    /\ message # NoMessage
    /\ startLen = 1

\* C10: every step of every invocation leaves the rows already stored in place
\* and unchanged: the store after the step begins with the store before it.
RecordsOnlyAppended ==
    [][/\ Len(records') >= Len(records)
       /\ SubSeq(records', 1, Len(records)) = records]_vars

\* C10 witness: a second invocation opened the store holding one row and ended on
\* a usage error with the row still there
StoreReopenedReached ==
    /\ invocation = 2
    /\ pc = "exited"
    /\ raised = InstructionsError
    /\ dbExists
    /\ Len(records) = 1

====
